---- MODULE Spec2Model ----
(***************************************************************************)
(* Summarization Assistant (app_summary_fix.py).                           *)
(*                                                                         *)
(* A text is a sequence of one-character strings.  The module has three    *)
(* parts: the text functions (chunking, joining, sentence selection), the  *)
(* process-wide model cache behind load_summarizer, and the button-press   *)
(* handler of main() run by one or more browser sessions.                  *)
(***************************************************************************)
EXTENDS Integers, Sequences, FiniteSets, TLC

VARIABLES
    ui,          \* session -> widget state, handler position and locals
    disk,        \* names of the files the users can upload
    cache,       \* st.cache_resource entry of load_summarizer: None or a handle
    lock,        \* holder of the cache's compute lock, or None
    loads,       \* completed pipeline(...) constructions in this process
    fn           \* one direct call of a text function: inputs and results

vars == <<ui, disk, cache, lock, loads, fn>>

None == "None"

(***************************************************************************)
(* Bounds of the model.                                                    *)
(***************************************************************************)
MaxPresses == 2       \* Generate Summary presses per session
MaxSentences == 6     \* sentences of a text passed directly to sumy_summary
MaxN == 6             \* largest sentence count passed directly to sumy_summary
MaxChunks == 3        \* multiples of the chunk length tried for chunking
Delta == 2            \* distance of a tried length from such a multiple

(***************************************************************************)
(* Program constants.                                                      *)
(***************************************************************************)
max_chunk_length == 1024
default_num_sentences == 5

Min(a, b) == IF a <= b THEN a ELSE b
Max(a, b) == IF a >= b THEN a ELSE b

WS == {" ", "\n"}

(***************************************************************************)
(* Python built-ins used by the code.                                      *)
(***************************************************************************)
\* range(start, stop, step), step > 0, as the sequence it iterates over.
RECURSIVE range(_, _, _)
range(start, stop, step) ==
    IF start >= stop THEN <<>>
    ELSE <<start>> \o range(start + step, stop, step)

\* text[i:j] for 0 <= i <= j: the end is clamped to the length.
Slice(text, i, j) == SubSeq(text, i + 1, Min(j, Len(text)))

\* sep.join(parts)
RECURSIVE join(_, _)
join(sep, parts) ==
    IF parts = <<>> THEN <<>>
    ELSE IF Len(parts) = 1 THEN parts[1]
    ELSE parts[1] \o sep \o join(sep, Tail(parts))

\* ''.join(parts): the effect of text += part over a loop.
RECURSIVE concat(_)
concat(parts) ==
    IF parts = <<>> THEN <<>> ELSE parts[1] \o concat(Tail(parts))

(***************************************************************************)
(* abstractive_summary: the chunk list.                                    *)
(***************************************************************************)
DropShortChunk(text) ==
    [k \in 1..(Len(text) \div max_chunk_length) |->
        Slice(text, (k - 1) * max_chunk_length, k * max_chunk_length)]

Chunks(text) ==
    LET starts == range(0, Len(text), max_chunk_length)
    IN  [k \in 1..Len(starts) |->
            Slice(text, starts[k], starts[k] + max_chunk_length)]

(***************************************************************************)
(* sumy: PlaintextParser sentences and LuhnSummarizer selection.           *)
(***************************************************************************)
\* Op applied to the value of val.
With(val, Op(_)) == CHOOSE y \in {Op(v) : v \in {val}} : TRUE

\* Sentence ends: every full stop, and the last non-blank character of a
\* trailing fragment.
SentenceEnds(text) ==
    LET dots == {i \in 1..Len(text) : text[i] = "."}
        lastDot == IF dots = {} THEN 0
                   ELSE CHOOSE d \in dots : \A e \in dots : e <= d
        tail == {i \in (lastDot + 1)..Len(text) : text[i] \notin WS}
    IN  dots \cup (IF tail = {} THEN {}
                   ELSE {CHOOSE t \in tail : \A u \in tail : u <= t})

\* The k-th smallest element of a set of numbers.
Nth(set, k) == CHOOSE e \in set : Cardinality({d \in set : d < e}) = k - 1

\* The sentence of a text that ends at position `end`, the sentence before
\* it ending at `prev`: stripped of leading blanks.
SentenceAt(text, prev, end) ==
    SubSeq(text,
           CHOOSE i \in (prev + 1)..end :
                /\ text[i] \notin WS
                /\ \A j \in (prev + 1)..(i - 1) : text[j] \in WS,
           end)

\* The sentences of a text in document order.
Sentences(text) ==
    With(SentenceEnds(text), LAMBDA ends :
        [k \in 1..Cardinality(ends) |->
            SentenceAt(text, IF k = 1 THEN 0 ELSE Nth(ends, k - 1),
                       Nth(ends, k))])

\* Luhn's rating of a sentence: its count of significant words.
rate_sentence(sentence) ==
    Cardinality({i \in 1..Len(sentence) : sentence[i] = "a"})

\* Sentence i comes before sentence j when sorted by rating, descending;
\* the sort is stable.
RatedBefore(sentences, i, j) ==
    \/ rate_sentence(sentences[i]) > rate_sentence(sentences[j])
    \/ /\ rate_sentence(sentences[i]) = rate_sentence(sentences[j])
       /\ i < j

\* The place of sentence i in that order, from 0.
Rank(sentences, i) ==
    Cardinality({j \in 1..Len(sentences) : RatedBefore(sentences, j, i)})

\* The positions of the `count` best rated sentences.
BestPositions(sentences, count) ==
    {i \in 1..Len(sentences) : Rank(sentences, i) < count}

\* The elements of a sequence at the given positions, in position order.
AtPositions(seq, ps) ==
    [k \in 1..Cardinality(ps) |-> seq[Nth(ps, k)]]

\* The best sentences, in rating order.
ByRating(sentences, count) ==
    [k \in 1..Min(count, Len(sentences)) |->
        sentences[CHOOSE i \in 1..Len(sentences) :
                        Rank(sentences, i) = k - 1]]

\* LuhnSummarizer()(document, count): the best sentences, in document order.
LuhnSummarizer(sentences, count) ==
    With(BestPositions(sentences, count), LAMBDA ps :
        AtPositions(sentences, ps))

ScoreOrderSummary(text, num_sentences) ==
    With(Sentences(text), LAMBDA sentences :
        join(<<" ">>, ByRating(sentences, num_sentences)))

sumy_summary(text, num_sentences) ==
    With(Sentences(text), LAMBDA sentences :
        With(LuhnSummarizer(sentences, num_sentences), LAMBDA summary :
            join(<<" ">>, summary)))

(***************************************************************************)
(* Direct calls of the text functions.  fn holds one call: the chunk list  *)
(* of abstractive_summary for a text, or sumy_summary(text, n).            *)
(***************************************************************************)
Letters == <<"a", "b", "c", "d", "e", "f", "g">>
SentenceLen == 400

\* A text of the given length: letters, a full stop every SentenceLen
\* characters and a blank after it.
GenText(length) ==
    [i \in 1..length |->
        IF i % SentenceLen = 0 THEN "."
        ELSE IF i % SentenceLen = 1 /\ i > 1 THEN " "
        ELSE Letters[(i % 7) + 1]]

\* Lengths around the multiples of the chunk length.
ChunkLens ==
    {k * max_chunk_length + d : k \in 0..MaxChunks, d \in (0 - Delta)..Delta}
        \cap Nat

\* The sentences short texts are built from, with ratings 0, 1 and 2.
SentencePool == {<<"b", ".">>, <<"a", ".">>, <<"a", "a", ".">>}

SentenceTexts ==
    {join(<<" ">>, ss) :
        ss \in UNION {[1..k -> SentencePool] : k \in 0..MaxSentences}}

FnOff == [pc |-> "off"]

FnCalls ==
    {[pc |-> "call", text |-> GenText(l), n |-> default_num_sentences] :
        l \in ChunkLens}
    \cup {[pc |-> "call", text |-> t, n |-> n] :
            t \in SentenceTexts, n \in 0..MaxN}

\* chunks = [text[i:i + max_chunk_length] for i in range(...)]
FnChunk ==
    /\ fn.pc = "call"
    /\ fn' = [pc |-> "chunked", text |-> fn.text, n |-> fn.n,
              chunks |-> Chunks(fn.text)]
    /\ UNCHANGED <<ui, disk, cache, lock, loads>>

\* sumy_summary(text, n)
FnSumy ==
    /\ fn.pc = "call"
    /\ fn' = [pc |-> "summarized", text |-> fn.text, n |-> fn.n,
              summary |-> sumy_summary(fn.text, fn.n)]
    /\ UNCHANGED <<ui, disk, cache, lock, loads>>


(***************************************************************************)
(* The widgets of main().                                                  *)
(***************************************************************************)
Methods == <<"Extraction", "Abstractive", "Both">>

FileTypes == <<"PDF Document (.pdf)", "Text File (.txt)",
               "Word Document (.docx)", "PowerPoint Presentation (.pptx)">>

\* The extension the uploader accepts for a document type.
UploaderType(file_type) ==
    CASE file_type = "Text File (.txt)" -> "txt"
      [] file_type = "PDF Document (.pdf)" -> "pdf"
      [] file_type = "Word Document (.docx)" -> "docx"
      [] file_type = "PowerPoint Presentation (.pptx)" -> "pptx"

(***************************************************************************)
(* Files a user may have.  valid says whether the bytes are what the       *)
(* extension promises; body is what the parser of that format finds: the   *)
(* decoded text, the pages' texts, the paragraphs, or the slides (each a   *)
(* sequence of shapes).                                                    *)
(***************************************************************************)
ShortText == <<"a", "a", ".", " ", "b", ".", " ", "a", ".">>

SevenSentences ==
    <<"b", ".", " ", "a", ".", " ", "a", "a", ".", " ", "b", ".", " ",
      "a", "a", "a", ".", " ", "a", ".", " ", "a", "a", ".">>

Files ==
    [name \in {"empty.txt", "notes.txt", "seven.txt", "report.txt",
               "latin1.txt", "paper.pdf", "renamed.pdf", "memo.docx",
               "blank.docx", "deck.pptx"} |->
        CASE name = "empty.txt" ->
                [ext |-> "txt", valid |-> TRUE, body |-> <<>>]
          [] name = "notes.txt" ->
                [ext |-> "txt", valid |-> TRUE, body |-> ShortText]
          [] name = "seven.txt" ->
                [ext |-> "txt", valid |-> TRUE, body |-> SevenSentences]
          [] name = "report.txt" ->
                [ext |-> "txt", valid |-> TRUE, body |-> GenText(3000)]
          [] name = "latin1.txt" ->
                [ext |-> "txt", valid |-> FALSE, body |-> <<>>]
          [] name = "paper.pdf" ->
                [ext |-> "pdf", valid |-> TRUE,
                 body |-> <<GenText(1000), <<>>, GenText(30)>>]
          [] name = "renamed.pdf" ->
                [ext |-> "pdf", valid |-> FALSE, body |-> <<>>]
          [] name = "memo.docx" ->
                [ext |-> "docx", valid |-> TRUE,
                 body |-> <<<<"a", " ", "a", ".">>, <<"b", ".">>>>]
          [] name = "blank.docx" ->
                [ext |-> "docx", valid |-> TRUE, body |-> <<>>]
          [] name = "deck.pptx" ->
                [ext |-> "pptx", valid |-> TRUE,
                 body |-> << <<[has_text_frame |-> TRUE,
                                paragraphs |-> <<<<"a", ".">>>>],
                               [has_text_frame |-> FALSE,
                                paragraphs |-> <<>>]>>,
                             <<[has_text_frame |-> TRUE,
                                paragraphs |-> <<<<"b", ".">>,
                                                 <<"a", "a", ".">>>>]>> >>]]

AllFiles == DOMAIN Files

\* The sessions and files of the concurrent runs.
RaceSessions == {1, 2}
RaceFiles == {"empty.txt", "notes.txt", "renamed.pdf"}

(***************************************************************************)
(* A call either returns a value or raises an exception with a             *)
(* description.                                                            *)
(***************************************************************************)
Return(v) == [ret |-> v]
Raise(desc) == [exc |-> desc]
Raised(r) == "exc" \in DOMAIN r

(***************************************************************************)
(* Text extraction.  A parser raises on bytes of another format.           *)
(***************************************************************************)
ParsesAs(file, ext) == file.valid /\ file.ext = ext

extract_text_from_pdf(file) ==
    IF ~ParsesAs(file, "pdf") THEN Raise("EOF marker not found")
    ELSE Return(concat(file.body))

extract_text_from_docx(file) ==
    IF ~ParsesAs(file, "docx") THEN Raise("File is not a zip file")
    ELSE Return(join(<<"\n">>, file.body))

\* The paragraphs of the shapes that have a text frame, slide by slide.
RECURSIVE ShapeTexts(_)
ShapeTexts(shapes) ==
    IF shapes = <<>> THEN <<>>
    ELSE (IF shapes[1].has_text_frame THEN shapes[1].paragraphs ELSE <<>>)
            \o ShapeTexts(Tail(shapes))

RECURSIVE SlideTexts(_)
SlideTexts(slides) ==
    IF slides = <<>> THEN <<>>
    ELSE ShapeTexts(slides[1]) \o SlideTexts(Tail(slides))

extract_text_from_pptx(file) ==
    IF ~ParsesAs(file, "pptx") THEN Raise("File is not a zip file")
    ELSE Return(join(<<"\n">>, SlideTexts(file.body)))

\* uploaded_file.read().decode()
decode(file) ==
    IF ~ParsesAs(file, "txt") THEN Raise("'utf-8' codec can't decode byte")
    ELSE Return(file.body)

\* The extractor each branch of the handler calls.
ExtractorWrongBranch(file_type) ==
    IF file_type = "PDF Document (.pdf)" THEN "extract_text_from_pdf"
    ELSE IF file_type = "Word Document (.docx)" THEN "extract_text_from_pptx"
    ELSE IF file_type = "PowerPoint Presentation (.pptx)"
        THEN "extract_text_from_docx"
    ELSE "decode"

Extractor(file_type) ==
    IF file_type = "PDF Document (.pdf)" THEN "extract_text_from_pdf"
    ELSE IF file_type = "Word Document (.docx)" THEN "extract_text_from_docx"
    ELSE IF file_type = "PowerPoint Presentation (.pptx)"
        THEN "extract_text_from_pptx"
    ELSE "decode"

RunExtractor(extractor, file) ==
    CASE extractor = "extract_text_from_pdf" -> extract_text_from_pdf(file)
      [] extractor = "extract_text_from_docx" -> extract_text_from_docx(file)
      [] extractor = "extract_text_from_pptx" -> extract_text_from_pptx(file)
      [] extractor = "decode" -> decode(file)


(***************************************************************************)
(* A session: the widget values, the position of the script and the        *)
(* locals of the button-press handler.  out is what the handler has        *)
(* rendered, in order; ran lists the calls the handler has made in this    *)
(* press; calls lists the model invocations of abstractive_summary.        *)
(***************************************************************************)
NoLocals ==
    [text |-> <<>>, summaries |-> <<>>, summarizer |-> {}, chunks |-> <<>>,
     parts |-> <<>>, calls |-> <<>>, out |-> <<>>, ran |-> <<>>,
     raised |-> None]

InitSession ==
    [method |-> Methods[1], file_type |-> FileTypes[1],
     uploaded_file |-> None, pc |-> "idle", presses |-> 0] @@ NoLocals

Sessions == DOMAIN ui

AtRest(u) == u.pc \in {"idle", "ready", "done"}

\* A rerun of the script without a button press: nothing of the last press
\* stays on the page.
Rerun(u) ==
    [method |-> u.method, file_type |-> u.file_type,
     uploaded_file |-> u.uploaded_file,
     pc |-> IF u.uploaded_file = None THEN "idle" ELSE "ready",
     presses |-> u.presses] @@ NoLocals

Element(el, at, label, body) ==
    [el |-> el, at |-> at, label |-> label, body |-> body]

ErrorMessage(desc) == Element("error", "main", "An error occurred: ", <<desc>>)

FailSilently(u, desc) == [u EXCEPT !.pc = "done", !.raised = desc]

\* except Exception as e: st.error(...)
Fail(u, desc) ==
    [u EXCEPT !.pc = "done", !.raised = desc,
              !.out = Append(@, ErrorMessage(desc))]

Has(summaries, key) == \E i \in 1..Len(summaries) : summaries[i].k = key
Get(summaries, key) ==
    summaries[CHOOSE i \in 1..Len(summaries) : summaries[i].k = key].v

(***************************************************************************)
(* Widgets.                                                                *)
(***************************************************************************)
SelectMethod(s, m) ==
    /\ AtRest(ui[s])
    /\ m # ui[s].method
    /\ ui' = [ui EXCEPT ![s] = Rerun([@ EXCEPT !.method = m])]
    /\ UNCHANGED <<disk, cache, lock, loads, fn>>

\* The uploader is a new widget for each document type: it starts empty.
SelectFileType(s, t) ==
    /\ AtRest(ui[s])
    /\ t # ui[s].file_type
    /\ ui' = [ui EXCEPT ![s] =
                Rerun([@ EXCEPT !.file_type = t, !.uploaded_file = None])]
    /\ UNCHANGED <<disk, cache, lock, loads, fn>>

Upload(s, f) ==
    /\ AtRest(ui[s])
    /\ f \in disk
    /\ f # ui[s].uploaded_file
    /\ Files[f].ext = UploaderType(ui[s].file_type)
    /\ ui' = [ui EXCEPT ![s] = Rerun([@ EXCEPT !.uploaded_file = f])]
    /\ UNCHANGED <<disk, cache, lock, loads, fn>>

RemoveFile(s) ==
    /\ AtRest(ui[s])
    /\ ui[s].uploaded_file # None
    /\ ui' = [ui EXCEPT ![s] = Rerun([@ EXCEPT !.uploaded_file = None])]
    /\ UNCHANGED <<disk, cache, lock, loads, fn>>

ButtonShownAlways(u) == TRUE

\* if uploaded_file is not None: ... st.button(...)
ButtonShown(u) == u.uploaded_file # None

PressButton(s) ==
    /\ AtRest(ui[s])
    /\ ButtonShown(ui[s])
    /\ ui[s].presses < MaxPresses
    /\ ui' = [ui EXCEPT ![s] =
                [Rerun(@) EXCEPT !.pc = "extract", !.presses = @ + 1]]
    /\ UNCHANGED <<disk, cache, lock, loads, fn>>

(***************************************************************************)
(* The handler: extraction and the extractive summary.                     *)
(***************************************************************************)
UsesExtractionAlways(method) == TRUE

UsesExtraction(method) == method \in {"Extraction", "Both"}
UsesAbstractive(method) == method \in {"Abstractive", "Both"}

ExtractText(s) ==
    LET u == ui[s]
        extractor == Extractor(u.file_type)
        r == IF u.uploaded_file = None
             THEN Raise("'NoneType' object has no attribute 'read'")
             ELSE RunExtractor(extractor, Files[u.uploaded_file])
        v == [u EXCEPT !.ran = Append(@, extractor)]
    IN  /\ u.pc = "extract"
        /\ ui' = [ui EXCEPT ![s] =
                    IF Raised(r) THEN Fail(v, r.exc)
                    ELSE [v EXCEPT !.text = r.ret,
                                   !.pc = IF UsesExtraction(u.method)
                                          THEN "extraction"
                                          ELSE "abstractive"]]
        /\ UNCHANGED <<disk, cache, lock, loads, fn>>

\* summaries["Extraction Summary"] = sumy_summary(text); the tokenizer may
\* raise.
ExtractionSummary(s) ==
    LET u == ui[s]
        v == [u EXCEPT !.ran = Append(@, "sumy_summary")]
    IN  /\ u.pc = "extraction"
        /\ \/ ui' = [ui EXCEPT ![s] =
                    [v EXCEPT
                        !.summaries = Append(@,
                            [k |-> "Extraction Summary",
                             v |-> sumy_summary(u.text,
                                                default_num_sentences)]),
                        !.pc = IF UsesAbstractive(u.method)
                               THEN "abstractive"
                               ELSE "statistics"]]
           \/ ui' = [ui EXCEPT ![s] = Fail(v, "Resource punkt not found")]
        /\ UNCHANGED <<disk, cache, lock, loads, fn>>

(***************************************************************************)
(* The handler: abstractive_summary.                                       *)
(***************************************************************************)
\* What the model may answer for a chunk: summary[0]['summary_text'].
ModelOutputs(chunk) ==
    {Slice(chunk, 0, 3),
     <<"S", " ">> \o SubSeq(chunk, Max(1, Len(chunk) - 1), Len(chunk))}

Proceed(u, handle) == [u EXCEPT !.summarizer = handle, !.pc = "chunks"]

\* abstractive_summary builds its own pipeline on every call.
BuildPerCall(s) ==
    /\ ui[s].pc = "abstractive"
    /\ ui' = [ui EXCEPT ![s] =
                [@ EXCEPT !.ran = Append(@, "load_summarizer"),
                          !.pc = "construct"]]
    /\ UNCHANGED <<disk, cache, lock, loads, fn>>

\* summarizer = load_summarizer(): the cached value when there is one.
GetSummarizer(s) ==
    LET u == [ui[s] EXCEPT !.ran = Append(@, "load_summarizer")]
    IN  /\ ui[s].pc = "abstractive"
        /\ ui' = [ui EXCEPT ![s] =
                    IF cache # {} THEN Proceed(u, cache)
                    ELSE [u EXCEPT !.pc = "wait"]]
        /\ UNCHANGED <<disk, cache, lock, loads, fn>>

\* A cache miss takes the key's compute lock and looks again.
AcquireLock(s) ==
    /\ ui[s].pc = "wait"
    /\ lock = {}
    /\ IF cache # {}
       THEN /\ ui' = [ui EXCEPT ![s] = Proceed(@, cache)]
            /\ UNCHANGED lock
       ELSE /\ ui' = [ui EXCEPT ![s].pc = "construct"]
            /\ lock' = {s}
    /\ UNCHANGED <<disk, cache, loads, fn>>

\* pipeline("summarization", model="facebook/bart-large-cnn") returns a new
\* handle, which is stored, or raises; the lock is released either way.
load_summarizer(s) ==
    /\ ui[s].pc = "construct"
    /\ lock' = lock \ {s}
    /\ \/ /\ loads' = loads + 1
          /\ cache' = {loads + 1}
          /\ ui' = [ui EXCEPT ![s] = Proceed(@, {loads + 1})]
       \/ /\ ui' = [ui EXCEPT ![s] = Fail(@, "Can't load the model")]
          /\ UNCHANGED <<cache, loads>>
    /\ UNCHANGED <<disk, fn>>

\* chunks = [text[i:i + max_chunk_length] for i in range(...)]; summaries = []
SplitChunks(s) ==
    /\ ui[s].pc = "chunks"
    /\ ui' = [ui EXCEPT ![s] =
                [@ EXCEPT !.chunks = Chunks(ui[s].text),
                          !.pc = "summarize"]]
    /\ UNCHANGED <<disk, cache, lock, loads, fn>>

\* for chunk in chunks: the chunk of the next iteration.
NextChunk(u) == u.chunks[Len(u.parts) + 1]

\* summary = summarizer(chunk, ...); summaries.append(...)
SummarizeChunk(s) ==
    LET u == ui[s]
        chunk == NextChunk(u)
        v == [u EXCEPT !.ran = Append(@, "summarizer")]
    IN  /\ u.pc = "summarize"
        /\ Len(u.parts) < Len(u.chunks)
        /\ \/ \E o \in ModelOutputs(chunk) :
                ui' = [ui EXCEPT ![s] =
                        [v EXCEPT !.calls = Append(@, [input |-> chunk,
                                                       output |-> o]),
                                  !.parts = Append(@, o)]]
           \/ ui' = [ui EXCEPT ![s] =
                        Fail([v EXCEPT !.calls = Append(@, [input |-> chunk])],
                             "CUDA out of memory")]
        /\ UNCHANGED <<disk, cache, lock, loads, fn>>

JoinNoSeparator(parts) == join(<<>>, parts)

\* ' '.join(summaries)
JoinSummaries(parts) == join(<<" ">>, parts)

\* return ' '.join(summaries); summaries["Abstractive Summary"] = ...
ReturnAbstractive(s) ==
    LET u == ui[s]
    IN  /\ u.pc = "summarize"
        /\ Len(u.parts) = Len(u.chunks)
        /\ ui' = [ui EXCEPT ![s] =
                    [u EXCEPT !.summaries = Append(@,
                                  [k |-> "Abstractive Summary",
                                   v |-> JoinSummaries(u.parts)]),
                              !.pc = "statistics"]]
        /\ UNCHANGED <<disk, cache, lock, loads, fn>>


(***************************************************************************)
(* The handler: statistics and rendering.                                  *)
(***************************************************************************)
RECURSIVE SumLen(_)
SumLen(summaries) ==
    IF summaries = <<>> THEN 0
    ELSE Len(summaries[1].v) + SumLen(Tail(summaries))

FirstSummaryOnly(method, summaries) == Len(summaries[1].v)

\* The summary length the statistics report: the sum for "Both", else the
\* length of list(summaries.values())[0].
SummaryLength(method, summaries) ==
    IF method = "Both" THEN SumLen(summaries) ELSE Len(summaries[1].v)

\* f"{(num / den) * 100:.1f}", den > 0, in tenths of a percent: the nearest
\* tenth; a value halfway between two tenths may go either way in floating
\* point.
Format1f(num, den) ==
    {t \in {(1000 * num) \div den, (1000 * num) \div den + 1} :
        /\ 2000 * num - 2 * t * den <= den
        /\ 2 * t * den - 2000 * num <= den}

Statistics(s) ==
    LET u == ui[s]
        both == u.method = "Both"
        length == SummaryLength(u.method, u.summaries)
        head == <<Element("markdown", "main", "---", <<>>),
                  Element("header", "main", "Results", <<>>),
                  Element("subheader", "main", "Text Statistics", <<>>),
                  Element("metric", "stat_col1", "Original Text Length",
                          <<Len(u.text)>>),
                  Element("metric", "stat_col2",
                          IF both THEN "Total Summary Length"
                          ELSE "Summary Length", <<length>>)>>
        v == [u EXCEPT !.ran = Append(@, "statistics"), !.out = @ \o head]
    IN  /\ u.pc = "statistics"
        /\ IF Len(u.text) = 0
           THEN ui' = [ui EXCEPT ![s] = Fail(v, "division by zero")]
           ELSE \E t \in Format1f(length, Len(u.text)) :
                  ui' = [ui EXCEPT ![s] =
                           [v EXCEPT !.pc = "render",
                                     !.out = Append(@,
                                        Element("metric", "stat_col3",
                                           IF both
                                           THEN "Avg Compression Ratio"
                                           ELSE "Compression Ratio",
                                           <<t>>))]]
        /\ UNCHANGED <<disk, cache, lock, loads, fn>>

TabLabels == <<"Extraction Summary", "Abstractive Summary", "Original Text">>

\* The view of a summary in its tab, and its download button.
SummaryView(u, key, at, stem) ==
    IF Has(u.summaries, key)
    THEN <<Element("markdown", at, "custom-summary-text",
                   Get(u.summaries, key)),
           [el |-> "download_button", at |-> at, label |-> "Download " \o key,
            body |-> Get(u.summaries, key),
            file_name |-> <<stem, u.uploaded_file, ".txt">>,
            mime |-> "text/plain"]>>
    ELSE <<>>

\* if "Extraction Summary" in summaries: ... if "Abstractive Summary" in
\* summaries: ...
SummaryViews(u) ==
    SummaryView(u, "Extraction Summary", "tab1", "sumy_summary_")
    \o SummaryView(u, "Abstractive Summary", "tab2", "abstractive_summary_")

Render(s) ==
    LET u == ui[s]
    IN  /\ u.pc = "render"
        /\ ui' = [ui EXCEPT ![s] =
                    [u EXCEPT
                        !.ran = Append(@, "render"),
                        !.pc = "done",
                        !.out = @
                            \o <<Element("markdown", "main", "---", <<>>),
                                 Element("subheader", "main", "Summaries",
                                         <<>>),
                                 Element("tabs", "main", "", TabLabels)>>
                            \o SummaryViews(u)
                            \o <<Element("expander", "tab3",
                                         "View Original Text", u.text)>>]]
        /\ UNCHANGED <<disk, cache, lock, loads, fn>>

(***************************************************************************)
(* Specifications.                                                         *)
(***************************************************************************)
Next ==
    \/ \E s \in Sessions : \E m \in {Methods[i] : i \in 1..Len(Methods)} :
            SelectMethod(s, m)
    \/ \E s \in Sessions : \E t \in {FileTypes[i] : i \in 1..Len(FileTypes)} :
            SelectFileType(s, t)
    \/ \E s \in Sessions : \E f \in AllFiles : Upload(s, f)
    \/ \E s \in Sessions : RemoveFile(s)
    \/ \E s \in Sessions : PressButton(s)
    \/ \E s \in Sessions : ExtractText(s)
    \/ \E s \in Sessions : ExtractionSummary(s)
    \/ \E s \in Sessions : GetSummarizer(s)
    \/ \E s \in Sessions : AcquireLock(s)
    \/ \E s \in Sessions : load_summarizer(s)
    \/ \E s \in Sessions : SplitChunks(s)
    \/ \E s \in Sessions : SummarizeChunk(s)
    \/ \E s \in Sessions : ReturnAbstractive(s)
    \/ \E s \in Sessions : Statistics(s)
    \/ \E s \in Sessions : Render(s)

\* The steps of the script thread of a session.
Handler(s) ==
    \/ ExtractText(s)
    \/ ExtractionSummary(s)
    \/ GetSummarizer(s)
    \/ AcquireLock(s)
    \/ load_summarizer(s)
    \/ SplitChunks(s)
    \/ SummarizeChunk(s)
    \/ ReturnAbstractive(s)
    \/ Statistics(s)
    \/ Render(s)

NextFn == FnChunk \/ FnSumy

NoProcess == /\ cache = {} /\ lock = {} /\ loads = 0

\* One session, every file.
Init ==
    /\ ui = [s \in {1} |-> InitSession]
    /\ disk = AllFiles
    /\ NoProcess
    /\ fn = FnOff

\* Concurrent sessions of one process.
InitRace ==
    /\ ui = [s \in RaceSessions |-> InitSession]
    /\ disk = RaceFiles
    /\ NoProcess
    /\ fn = FnOff

\* One direct call of a text function.
InitFn ==
    /\ ui = [s \in {1} |-> InitSession]
    /\ disk = {}
    /\ NoProcess
    /\ fn \in FnCalls

Spec == Init /\ [][Next]_vars

SpecRace == InitRace /\ [][Next]_vars

\* A script thread that can take a step does take it.
SpecFair ==
    /\ InitRace
    /\ [][Next]_vars
    /\ \A s \in RaceSessions : WF_vars(Handler(s))

SpecFn == InitFn /\ [][NextFn]_vars


(***************************************************************************)
(* Properties.                                                             *)
(***************************************************************************)
Last(seq) == seq[Len(seq)]

\* C1: for a text of length L the chunk list has exactly ceil(L / 1024)
\* chunks, each of 1 to 1024 characters and all but the last of exactly
\* 1024; chunk k is the text from offset (k - 1) * 1024 on, so the chunks
\* are contiguous, do not overlap, and concatenated in order give the text
\* back (no chunk for the empty text).
C1_ChunksPartitionText ==
    fn.pc = "chunked" =>
        LET L == Len(fn.text)
            cs == fn.chunks
        IN  /\ (Len(cs) - 1) * 1024 < L
            /\ L <= Len(cs) * 1024
            /\ \A k \in 1..Len(cs) :
                /\ Len(cs[k]) >= 1
                /\ Len(cs[k]) <= 1024
                /\ k < Len(cs) => Len(cs[k]) = 1024
                /\ \A j \in 1..Len(cs[k]) :
                        cs[k][j] = fn.text[(k - 1) * 1024 + j]
            /\ concat(cs) = fn.text

\* A text of three chunks whose last chunk is short has been chunked.
C1_Witness ==
    /\ fn.pc = "chunked"
    /\ Len(fn.chunks) = 3
    /\ Len(fn.chunks[3]) < 1024

IsSubsequence(got, src) ==
    \E ps \in SUBSET (1..Len(src)) : AtPositions(src, ps) = got

\* C8: sumy_summary(text, n) is made of at most min(n, number of sentences
\* of the text) sentences, each a sentence of the text, in their order of
\* appearance and joined by single blanks; a text of fewer than n sentences
\* gives all of them, and the empty text gives the empty string.
C8_ExtractiveSelection ==
    fn.pc = "summarized" =>
        LET src == Sentences(fn.text)
            got == Sentences(fn.summary)
        IN  /\ Len(got) <= Min(fn.n, Len(src))
            /\ IsSubsequence(got, src)
            /\ fn.summary = join(<<" ">>, got)
            /\ Len(src) < fn.n => got = src
            /\ fn.text = <<>> => fn.summary = <<>>

\* A summary cut to n sentences in which a later sentence is rated higher
\* than an earlier one.
C8_Witness ==
    /\ fn.pc = "summarized"
    /\ fn.n = 5
    /\ Len(Sentences(fn.text)) > fn.n
    /\ LET got == Sentences(fn.summary)
       IN  /\ Len(got) = fn.n
           /\ \E i, j \in 1..Len(got) :
                /\ i < j
                /\ rate_sentence(got[i]) < rate_sentence(got[j])

RECURSIVE LenUpTo(_, _)
LenUpTo(outs, k) ==
    IF k = 0 THEN 0 ELSE Len(outs[k]) + LenUpTo(outs, k - 1)

\* C2: abstractive_summary calls the model once per chunk, in chunk order,
\* and returns the answers in that order with exactly one blank between
\* two of them: k chunks give k answers and k - 1 separators, and a text of
\* 3000 characters gives exactly 3 answers.
C2_OneCallPerChunkJoined ==
    \A s \in Sessions :
        LET u == ui[s]
            n == Len(u.calls)
            outs == [k \in 1..n |-> u.calls[k].output]
            off(k) == LenUpTo(outs, k - 1) + (k - 1)
        IN  /\ n <= Len(u.chunks)
            /\ \A k \in 1..n : u.calls[k].input = u.chunks[k]
            /\ Has(u.summaries, "Abstractive Summary") =>
                LET r == Get(u.summaries, "Abstractive Summary")
                IN  /\ n = Len(u.chunks)
                    /\ Len(u.text) = 3000 => n = 3
                    /\ Len(r) = LenUpTo(outs, n) + Max(n - 1, 0)
                    /\ \A k \in 1..n :
                        /\ SubSeq(r, off(k) + 1, off(k) + Len(outs[k]))
                                = outs[k]
                        /\ k > 1 => r[off(k)] = " "

\* The summary of a 3000-character text has been returned.
C2_Witness ==
    \E s \in Sessions :
        /\ Has(ui[s].summaries, "Abstractive Summary")
        /\ Len(ui[s].text) = 3000
        /\ Len(ui[s].calls) = 3


\* C3: however the summarization requests of concurrent sessions
\* interleave, the pipeline is constructed at most once in the process;
\* once constructed its handle stays cached, and every session that has
\* obtained the summarizer holds that same handle.
C3_ModelLoadedOnce ==
    /\ loads <= 1
    /\ cache = IF loads = 0 THEN {} ELSE {1}
    /\ \A s \in Sessions : ui[s].summarizer \in {{}, cache}
    /\ \A s \in Sessions :
        ui[s].pc \in {"chunks", "summarize"} => ui[s].summarizer = {1}

\* Two sessions race on first use: both missed the cache, one constructs
\* the pipeline while the other waits.
C3_Witness ==
    \E s, t \in Sessions :
        /\ ui[s].pc = "construct"
        /\ ui[t].pc = "wait"
        /\ cache = {}

Count(seq, x) == Cardinality({i \in 1..Len(seq) : seq[i] = x})

ExtractorNames ==
    {"extract_text_from_pdf", "extract_text_from_docx",
     "extract_text_from_pptx", "decode"}

\* The press failed in extraction or in a summarizer.
FailedBeforeStatistics(u) ==
    /\ u.raised # None
    /\ Last(u.ran) \in ExtractorNames
            \cup {"sumy_summary", "load_summarizer", "summarizer"}

\* C4: when extraction or a summarizer raises, the press ends with exactly
\* one error message, which carries the description of the exception, and
\* with nothing else rendered: no statistic, summary view, download button
\* or original-text view; the call that raised is the last one of the press
\* and no call is made a second time.
C4_FailureShowsOnlyError ==
    \A s \in Sessions :
        LET u == ui[s]
        IN  FailedBeforeStatistics(u) =>
                /\ u.pc = "done"
                /\ Len(u.out) = 1
                /\ u.out[1].el = "error"
                /\ u.out[1].body = <<u.raised>>
                /\ \A x \in ExtractorNames
                        \cup {"sumy_summary", "load_summarizer"} :
                        Count(u.ran, x) <= 1
                /\ Count(u.ran, "summarizer") = Len(u.calls)
                /\ Len(u.calls) <= Len(u.chunks)
                /\ Count(u.ran, "statistics") = 0
                /\ Count(u.ran, "render") = 0

\* The model raised on the second chunk, after the extractive summary and
\* the first chunk's summary had been produced.
C4_Witness ==
    \E s \in Sessions :
        /\ FailedBeforeStatistics(ui[s])
        /\ Last(ui[s].ran) = "summarizer"
        /\ Len(ui[s].calls) = 2
        /\ Has(ui[s].summaries, "Extraction Summary")

\* C5: the statistics step does not raise when the original text is empty:
\* a press on an upload whose text is empty gets through the statistics
\* with an output.
C5_ZeroLengthStatisticsDefined ==
    \A s \in Sessions :
        (/\ Count(ui[s].ran, "statistics") > 0
         /\ Len(ui[s].text) = 0) => ui[s].raised = None

Kinds == {"Extraction Summary", "Abstractive Summary"}

Requested(method) ==
    CASE method = "Extraction" -> {"Extraction Summary"}
      [] method = "Abstractive" -> {"Abstractive Summary"}
      [] method = "Both" -> Kinds

TabOf(kind) == IF kind = "Extraction Summary" THEN "tab1" ELSE "tab2"

Succeeded(u) == u.pc = "done" /\ u.raised = None

Produced(u) == {u.summaries[i].k : i \in 1..Len(u.summaries)}

ElementsAt(u, at, el) ==
    {i \in 1..Len(u.out) : u.out[i].at = at /\ u.out[i].el = el}

\* Every produced summary has its view and its download button in its tab.
ProducedAreRendered(u) ==
    /\ Produced(u) = Requested(u.method)
    /\ Len(u.summaries) = Cardinality(Requested(u.method))
    /\ \A kind \in Produced(u) :
        /\ Cardinality(ElementsAt(u, TabOf(kind), "markdown")) = 1
        /\ Cardinality(ElementsAt(u, TabOf(kind), "download_button")) = 1
        /\ \A i \in ElementsAt(u, TabOf(kind), "markdown")
                    \cup ElementsAt(u, TabOf(kind), "download_button") :
                u.out[i].body = Get(u.summaries, kind)

TabsCreated(u) ==
    UNION {{u.out[i].body[j] : j \in 1..Len(u.out[i].body)} :
            i \in ElementsAt(u, "main", "tabs")}

\* C6 as claimed: on a successful press the summaries produced are those of
\* the method, each rendered in its own labeled view with its download
\* button, and no view is rendered for a kind that was not requested.
C6_NoViewForOtherKind ==
    \A s \in Sessions :
        Succeeded(ui[s]) =>
            /\ ProducedAreRendered(ui[s])
            /\ \A kind \in Kinds \ Requested(ui[s].method) :
                /\ kind \notin TabsCreated(ui[s])
                /\ ElementsAt(ui[s], TabOf(kind), "markdown") = {}
                /\ ElementsAt(ui[s], TabOf(kind), "download_button") = {}

\* C6 amended: on a successful press the summaries produced are those of
\* the method, each rendered in its own tab with its download button; the
\* tabs of both kinds are always created, and the tab of a kind that was
\* not requested holds no summary text and no download button.
C6_OtherKindTabEmpty ==
    \A s \in Sessions :
        Succeeded(ui[s]) =>
            /\ ProducedAreRendered(ui[s])
            /\ Kinds \subseteq TabsCreated(ui[s])
            /\ \A kind \in Kinds \ Requested(ui[s].method) :
                /\ ElementsAt(ui[s], TabOf(kind), "markdown") = {}
                /\ ElementsAt(ui[s], TabOf(kind), "download_button") = {}

\* A successful press with method Extraction.
C6_Witness ==
    \E s \in Sessions :
        /\ Succeeded(ui[s])
        /\ ui[s].method = "Extraction"
        /\ Get(ui[s].summaries, "Extraction Summary") # <<>>

ExtractorFor(file_type) ==
    CASE file_type = "PDF Document (.pdf)" -> "extract_text_from_pdf"
      [] file_type = "Word Document (.docx)" -> "extract_text_from_docx"
      [] file_type = "PowerPoint Presentation (.pptx)" ->
            "extract_text_from_pptx"
      [] file_type = "Text File (.txt)" -> "decode"

\* C7: the first call of a press is the extractor of the selected document
\* type (PDF, DOCX and PPTX to their extractors, plain text to decoding),
\* the selected type is always one of the four, and no second extractor
\* runs in the press.
C7_OneExtractorPerType ==
    \A s \in Sessions :
        LET u == ui[s]
        IN  /\ \E i \in 1..4 : u.file_type = FileTypes[i]
            /\ u.pc \notin {"idle", "ready", "extract"} =>
                /\ u.ran # <<>>
                /\ u.ran[1] = ExtractorFor(u.file_type)
                /\ \A k \in 2..Len(u.ran) : u.ran[k] \notin ExtractorNames

\* A presentation went through the PPTX extractor and gave its text.
C7_Witness ==
    \E s \in Sessions :
        /\ ui[s].file_type = "PowerPoint Presentation (.pptx)"
        /\ ui[s].ran = <<"extract_text_from_pptx">>
        /\ ui[s].text # <<>>

\* The body of the metric rendered in a statistics column.
Metric(u, at) == u.out[CHOOSE i \in ElementsAt(u, at, "metric") : TRUE].body[1]

TotalLength(u) ==
    (IF Has(u.summaries, "Extraction Summary")
     THEN Len(Get(u.summaries, "Extraction Summary")) ELSE 0)
    + (IF Has(u.summaries, "Abstractive Summary")
       THEN Len(Get(u.summaries, "Abstractive Summary")) ELSE 0)

\* C9: when the original text is not empty, the reported summary length is
\* the total length of the summaries of the press (the sum of both for
\* Both) and the reported ratio is that total divided by the length of
\* the original text, times 100, to the nearest tenth.
C9_RatioOverTotalLength ==
    \A s \in Sessions :
        LET u == ui[s]
            L == Len(u.text)
        IN  (u.pc \in {"render", "done"} /\ u.raised = None /\ L > 0) =>
                /\ Cardinality(ElementsAt(u, "stat_col2", "metric")) = 1
                /\ Cardinality(ElementsAt(u, "stat_col3", "metric")) = 1
                /\ Metric(u, "stat_col1") = L
                /\ Metric(u, "stat_col2") = TotalLength(u)
                /\ 2 * Metric(u, "stat_col3") * L - 2000 * TotalLength(u) <= L
                /\ 2000 * TotalLength(u) - 2 * Metric(u, "stat_col3") * L <= L

\* A press with method Both whose two summaries are not empty.
C9_Witness ==
    \E s \in Sessions :
        /\ Succeeded(ui[s])
        /\ ui[s].method = "Both"
        /\ Len(Get(ui[s].summaries, "Extraction Summary")) > 0
        /\ Len(Get(ui[s].summaries, "Abstractive Summary")) > 0


StageRank(x) ==
    CASE x \in ExtractorNames -> 1
      [] x = "sumy_summary" -> 2
      [] x = "load_summarizer" -> 3
      [] x = "summarizer" -> 4
      [] x = "statistics" -> 5
      [] x = "render" -> 6

\* The calls of a press are in the order extract, extractive summarizer,
\* abstractive summarizer, statistics, render; the summarizers are those
\* of the method, and a stage has run only if the earlier ones completed.
StagesInOrder(u) ==
    /\ \A i, j \in 1..Len(u.ran) :
        i < j =>
            \/ StageRank(u.ran[i]) < StageRank(u.ran[j])
            \/ u.ran[i] = "summarizer" /\ u.ran[j] = "summarizer"
    /\ u.ran # <<>> => u.ran[1] \in ExtractorNames
    /\ Count(u.ran, "sumy_summary") > 0 => u.method \in {"Extraction", "Both"}
    /\ Count(u.ran, "load_summarizer") > 0 =>
            u.method \in {"Abstractive", "Both"}
    /\ Count(u.ran, "summarizer") > 0 => Count(u.ran, "load_summarizer") = 1
    /\ Count(u.ran, "statistics") > 0 =>
        /\ u.method \in {"Extraction", "Both"} =>
                Has(u.summaries, "Extraction Summary")
        /\ u.method \in {"Abstractive", "Both"} =>
                /\ Has(u.summaries, "Abstractive Summary")
                /\ Count(u.ran, "summarizer") = Len(u.chunks)
    /\ Count(u.ran, "render") > 0 => Count(u.ran, "statistics") = 1
    /\ u.raised # None => u.pc = "done"

\* Idle is the state without an upload: nothing runs in it.
NothingRunsWithoutUpload(u) ==
    u.uploaded_file = None =>
        /\ u.pc = "idle"
        /\ u.ran = <<>>
        /\ u.summarizer = {}

\* A run starts only by a press of the button while a file is uploaded.
StartsByPress(s) ==
    (AtRest(ui[s]) /\ ~AtRest(ui'[s])) =>
        /\ ui[s].uploaded_file # None
        /\ ui'[s].uploaded_file = ui[s].uploaded_file
        /\ ui'[s].pc = "extract"
        /\ ui'[s].presses = ui[s].presses + 1
        /\ ui'[s].ran = <<>>

\* After a raise no further stage of the press runs.
StopsAtRaise(s) ==
    ui[s].raised # None => (ui'[s].ran = ui[s].ran \/ ui'[s].ran = <<>>)

Ended(u) ==
    /\ u.pc = "done"
    /\ \/ u.raised # None /\ Last(u.out).el = "error"
       \/ u.raised = None /\ Last(u.ran) = "render"
                          /\ Last(u.out).el = "expander"

\* C10: without an uploaded file the session is idle and nothing is
\* extracted, summarized or loaded; a run starts only by a button press
\* while a file is uploaded; the stages of a run occur in the order
\* extract, extractive summarizer, abstractive summarizer, statistics,
\* render, each only if the earlier ones completed without raising; and
\* every started run ends in a rendered result or an error message.
C10_StateMachine ==
    /\ [](\A s \in RaceSessions :
            /\ NothingRunsWithoutUpload(ui[s])
            /\ StagesInOrder(ui[s])
            /\ ui[s].pc = "done" => Ended(ui[s]))
    /\ [][\A s \in RaceSessions : StartsByPress(s) /\ StopsAtRaise(s)]_vars
    /\ \A s \in RaceSessions : (~AtRest(ui[s])) ~> Ended(ui[s])

\* A press with method Both has gone through every stage and rendered.
C10_Witness ==
    \E s \in RaceSessions :
        /\ Ended(ui[s])
        /\ ui[s].method = "Both"
        /\ ui[s].ran = <<"decode", "sumy_summary", "load_summarizer",
                         "summarizer", "statistics", "render">>

====
